---- MODULE Spec2Model ----
(***************************************************************************)
(* A model of substack-scraper.py: the pagination loop of                  *)
(* scrape_all_posts, the per-post normalisation of normalize_post, the     *)
(* byline extraction of extract_author_from_html and the final             *)
(* save_to_csv.                                                            *)
(*                                                                         *)
(* Two specifications share the variables.  Spec runs the whole script     *)
(* (__main__) against a nondeterministic server, and FairSpec is Spec with *)
(* the fairness that the timeouts of the requests give.  SpecNormalize     *)
(* applies normalize_post once to a raw post and an article response drawn *)
(* from wider sets than the ones the pagination run uses.                  *)
(*                                                                         *)
(* Strings are TLA+ strings.  A text whose whitespace matters (a title, a  *)
(* link text) is a sequence of tokens, each either whitespace or a run of  *)
(* non-whitespace characters, so that strip() and split() are computed.    *)
(* A URL reference is kept in its urlsplit() form so that urljoin() can    *)
(* be computed by the rules urllib applies.                                *)
(***************************************************************************)
EXTENDS Integers, Sequences, FiniteSets, TLC

(* ---------------------------------------------------------------------- *)
(* Bounds                                                                  *)
(* ---------------------------------------------------------------------- *)
\* limit ranges over 1..MaxLimit
MaxLimit == 2
\* max_pages ranges over 0..MaxPagesBound
MaxPagesBound == 2
\* the server answers with at most MaxPageLen posts, whatever limit asks for
MaxPageLen == 2
\* the server holds at most MaxArchive posts
MaxArchive == 3
\* a document has at most MaxLinks links with an @ in their target
MaxLinks == 1
\* a document has at most MaxEls elements matching a byline selector
MaxEls == 2

(* ---------------------------------------------------------------------- *)
(* Configuration                                                           *)
(* ---------------------------------------------------------------------- *)
BASE == "https://zeteo.com"

\* urlsplit(BASE): scheme, netloc and an empty path
BASE_PARTS == [scheme |-> "https", netloc |-> "zeteo.com", rooted |-> FALSE, segs |-> ""]

(* ---------------------------------------------------------------------- *)
(* Optional values: dict.get(key) gives None for a missing key             *)
(* ---------------------------------------------------------------------- *)
Missing(dflt) == [has |-> FALSE, v |-> dflt]
Present(val) == [has |-> TRUE, v |-> val]

\* Python truthiness of dict.get(key) for a str value
TruthyStr(o) == o.has /\ o.v # ""

\* Python truthiness of dict.get(key) for an int value
TruthyInt(o) == o.has /\ o.v # 0

(* ---------------------------------------------------------------------- *)
(* Text helpers                                                            *)
(* ---------------------------------------------------------------------- *)
WS == {" ", "  ", "\n"}

IsSpace(tok) == tok \in WS

RECURSIVE LStrip(_)
LStrip(toks) ==
    IF toks = <<>> THEN <<>>
    ELSE IF IsSpace(Head(toks)) THEN LStrip(Tail(toks))
    ELSE toks

RECURSIVE RStrip(_)
RStrip(toks) ==
    IF toks = <<>> THEN <<>>
    ELSE IF IsSpace(toks[Len(toks)]) THEN RStrip(SubSeq(toks, 1, Len(toks) - 1))
    ELSE toks

RECURSIVE Concat(_)
Concat(toks) == IF toks = <<>> THEN "" ELSE Head(toks) \o Concat(Tail(toks))

\* str.strip() on a tokenised text, giving the resulting string
Strip(toks) == Concat(RStrip(LStrip(toks)))

\* str.split(): the non-whitespace tokens
Split(toks) == SelectSeq(toks, LAMBDA t : ~IsSpace(t))

RECURSIVE Join(_, _)
Join(sep, strs) ==
    IF strs = <<>> THEN ""
    ELSE IF Len(strs) = 1 THEN strs[1]
    ELSE strs[1] \o sep \o Join(sep, Tail(strs))

DigitChars == <<"0", "1", "2", "3", "4", "5", "6", "7", "8", "9">>

RECURSIVE IntToStr(_)
IntToStr(n) ==
    IF n < 10 THEN DigitChars[n + 1]
    ELSE IntToStr(n \div 10) \o DigitChars[(n % 10) + 1]

(* ---------------------------------------------------------------------- *)
(* URL references and urljoin                                              *)
(* ---------------------------------------------------------------------- *)
Ref(scheme, netloc, rooted, segs) ==
    [scheme |-> scheme, netloc |-> netloc, rooted |-> rooted, segs |-> segs]

EmptyRef == Ref("", "", FALSE, "")

\* urlunsplit()
Unsplit(r) ==
    (IF r.scheme # "" THEN r.scheme \o ":" ELSE "")
    \o (IF r.netloc # "" THEN "//" \o r.netloc ELSE "")
    \o (IF r.rooted THEN "/" ELSE "")
    \o r.segs

\* urllib.parse.urljoin(base, url) for references without query, fragment
\* or dot segments
urljoin(base, r) ==
    IF r = EmptyRef THEN Unsplit(base)
    ELSE IF r.scheme # "" /\ r.scheme # base.scheme THEN Unsplit(r)
    ELSE IF r.netloc # "" THEN Unsplit(Ref(base.scheme, r.netloc, r.rooted, r.segs))
    ELSE IF ~r.rooted /\ r.segs = "" THEN Unsplit(base)
    ELSE Unsplit(Ref(base.scheme, base.netloc, TRUE, r.segs))

(* ---------------------------------------------------------------------- *)
(* extract_author_from_html                                                *)
(* ---------------------------------------------------------------------- *)
\* the ways session.get / raise_for_status / BeautifulSoup can raise
ArticleFailures == {"network_error", "http_error", "parse_error"}

\* what an article request gives: a failure, or a parsed document with its
\* a[href*='@'] links and its elements matching a byline selector
FailedArticle(failure) == [outcome |-> failure, links |-> <<>>, els |-> <<>>]
ArticlePage(links, els) == [outcome |-> "ok", links |-> links, els |-> els]

\* the selectors of strategy 2, in the order the code tries them
SELECTORS == <<".byline", ".post-meta", "[data-testid='post-byline']", ".author-name">>

\* strategy 1: a[href*='@'] links, text kept when it has at most 5 words
RECURSIVE LinkCandidates(_)
LinkCandidates(links) ==
    IF links = <<>> THEN <<>>
    ELSE LET txt == Strip(Head(links))
         IN  (IF txt # "" /\ Len(Split(Head(links))) <= 5 THEN <<txt>> ELSE <<>>)
             \o LinkCandidates(Tail(links))

\* soup.select(sel): the elements matching sel, in document order
RECURSIVE SelectorCandidates(_, _)
SelectorCandidates(sel, els) ==
    IF els = <<>> THEN <<>>
    ELSE LET txt == Strip(Head(els).text)
         IN  (IF Head(els).sel = sel /\ txt # "" THEN <<txt>> ELSE <<>>)
             \o SelectorCandidates(sel, Tail(els))

\* strategy 2: every selector in turn
RECURSIVE AllSelectorCandidates(_, _)
AllSelectorCandidates(sels, els) ==
    IF sels = <<>> THEN <<>>
    ELSE SelectorCandidates(Head(sels), els) \o AllSelectorCandidates(Tail(sels), els)

\* the candidates list when the loop of line 126 starts
Candidates(page) == LinkCandidates(page.links) \o AllSelectorCandidates(SELECTORS, page.els)

\* the loop of lines 126-129, from the state (cleaned, seen)
RECURSIVE CleanLoop(_, _, _)
CleanLoop(cands, cleaned, seen) ==
    IF cands = <<>> THEN cleaned
    ELSE LET c == Head(cands)
         IN  IF c # "" /\ c \notin seen
             THEN CleanLoop(Tail(cands), Append(cleaned, c), seen \cup {c})
             ELSE CleanLoop(Tail(cands), cleaned, seen)

\* a plausible slip: the seen set is never consulted
CleanNoSeen(cands) == SelectSeq(cands, LAMBDA c : c # "")

\* lines 124-129
Clean(cands) == CleanLoop(cands, <<>>, {})

\* a plausible slip: only a network error is caught
CaughtNetworkOnly(failure) == failure = "network_error"

\* line 134: except Exception catches every failure of the try block
Caught(failure) == failure \in ArticleFailures

\* whether the call raises into normalize_post
ExtractPropagates(resp) == resp.outcome # "ok" /\ ~Caught(resp.outcome)

\* the value returned for a response: "" on any caught exception
extract_author_from_html(resp) ==
    IF resp.outcome # "ok" THEN ""
    ELSE LET cleaned == Clean(Candidates(resp))
         IN  IF cleaned # <<>> THEN Join(", ", cleaned) ELSE ""

(* ---------------------------------------------------------------------- *)
(* normalize_post                                                          *)
(* ---------------------------------------------------------------------- *)
\* a or b or c or "" over dict.get results
FirstTruthyStr(a, b, c) ==
    IF TruthyStr(a) THEN a.v
    ELSE IF TruthyStr(b) THEN b.v
    ELSE IF TruthyStr(c) THEN c.v
    ELSE ""

\* a or b or c or "" over tokenised texts (truthy when not the empty string)
FirstTruthyText(a, b, c) ==
    IF a.has /\ a.v # <<>> THEN a.v
    ELSE IF b.has /\ b.v # <<>> THEN b.v
    ELSE IF c.has /\ c.v # <<>> THEN c.v
    ELSE <<>>

PostDate(post) == FirstTruthyStr(post.published_at, post.post_date, post.created_at)

PostHeadline(post) == Strip(IF post.title.has /\ post.title.v # <<>> THEN post.title.v ELSE <<>>)

PostSubheading(post) == Strip(FirstTruthyText(post.subtitle, post.dek, post.description))

\* a plausible slip: the slug is preferred to the API-provided url
PostUrlSlugFirst(post) ==
    IF TruthyStr(post.slug) THEN BASE \o "/p/" \o post.slug.v
    ELSE IF post.url.has /\ post.url.v # EmptyRef THEN urljoin(BASE_PARTS, post.url.v)
    ELSE IF TruthyInt(post.id) THEN BASE \o "/p/" \o IntToStr(post.id.v)
    ELSE ""

\* lines 177-183
PostUrl(post) ==
    IF post.url.has /\ post.url.v # EmptyRef
    THEN urljoin(BASE_PARTS, post.url.v)
    ELSE IF TruthyStr(post.slug) THEN BASE \o "/p/" \o post.slug.v
    ELSE IF TruthyInt(post.id) THEN BASE \o "/p/" \o IntToStr(post.id.v)
    ELSE ""

\* a plausible slip: the article is requested whatever the url
NeedsArticleAlways(post) == TRUE

\* line 187: the article is requested only for a non-empty url
NeedsArticle(post) == PostUrl(post) # ""

\* resp is what the article request gives when it is made
normalize_post(post, resp) ==
    [date |-> PostDate(post),
     author_byline |-> IF NeedsArticle(post) THEN extract_author_from_html(resp) ELSE "",
     headline |-> PostHeadline(post),
     url |-> PostUrl(post),
     subheading |-> PostSubheading(post)]

(* ---------------------------------------------------------------------- *)
(* Inputs                                                                  *)
(* ---------------------------------------------------------------------- *)
SeqsUpTo(S, n) == UNION {[1..k -> S] : k \in 0..n}

UrlValues ==
    {Missing(EmptyRef), Present(EmptyRef),
     Present(Ref("", "", TRUE, "p/second")),
     Present(Ref("", "", FALSE, "p/third")),
     Present(Ref("https", "other.example", TRUE, "p/x")),
     Present(Ref("", "cdn.example", TRUE, "p/y"))}

SlugValues == {Missing(""), Present(""), Present("first-post")}

IdValues == {Missing(0), Present(0), Present(123)}

TitleValues == {Missing(<<>>), Present(<<" ", "Hello", " ", "World", "\n">>)}

RawPosts ==
    [url : UrlValues, slug : SlugValues, id : IdValues,
     published_at : {Missing(""), Present("2024-01-03")},
     post_date : {Missing(""), Present("2024-01-02")},
     created_at : {Missing(""), Present("2024-01-01")},
     title : TitleValues,
     subtitle : {Missing(<<>>), Present(<<"Sub", "  ">>)},
     dek : {Missing(<<>>), Present(<<"Dek">>)},
     description : {Missing(<<>>), Present(<<" ", "Desc">>)}]

\* a post carrying nothing but a title
BarePost ==
    [url |-> Missing(EmptyRef), slug |-> Missing(""), id |-> Missing(0),
     published_at |-> Missing(""), post_date |-> Missing(""), created_at |-> Missing(""),
     title |-> Present(<<" ", "Hello", " ", "World", "\n">>),
     subtitle |-> Missing(<<>>), dek |-> Missing(<<>>), description |-> Missing(<<>>)]

FirstPost ==
    [BarePost EXCEPT !.slug = Present("first-post"), !.title = Missing(<<>>),
                     !.published_at = Present("2024-01-03")]

SecondPost ==
    [BarePost EXCEPT !.url = Present(Ref("", "", TRUE, "p/second")), !.title = Missing(<<>>),
                     !.dek = Present(<<"Dek">>)]

\* the posts the server of the pagination run serves: one that gets a url
\* and one that does not
ScrapePosts == {FirstPost, BarePost}

JaneDoe == <<"Jane", " ", "Doe">>
JohnRoe == <<"John", " ", "Roe">>
SixWords == <<"Read", " ", "more", " ", "from", " ", "this", " ", "great", " ", "author">>

LinkTexts == {JaneDoe, <<" ", "Jane", " ", "Doe", "\n">>, <<"  ">>, SixWords}

ElTexts == {JaneDoe, JohnRoe, <<" ">>}

Elements == [sel : {SELECTORS[i] : i \in 1..Len(SELECTORS)}, text : ElTexts]

\* the documents with at most nl links and ne byline elements
ArticlePages(nl, ne) ==
    {ArticlePage(ls, es) : ls \in SeqsUpTo(LinkTexts, nl), es \in SeqsUpTo(Elements, ne)}

FailedArticles == {FailedArticle(f) : f \in ArticleFailures}

\* the article responses of the pagination run
ScrapeArticles == FailedArticles \cup {ArticlePage(<<JaneDoe>>, <<>>)}

\* the JSON value resp.json() gives: a list, or a dict that may carry a list
\* under "posts", "items" and "results"
ListData(ps) ==
    [kind |-> "list", list |-> ps,
     posts |-> Missing(<<>>), items |-> Missing(<<>>), results |-> Missing(<<>>)]

DictData(ps, is, rs) == [kind |-> "dict", list |-> <<>>, posts |-> ps, items |-> is, results |-> rs]

NoData == [kind |-> "none", list |-> <<>>,
           posts |-> Missing(<<>>), items |-> Missing(<<>>), results |-> Missing(<<>>)]

\* what a dict carries under one key: nothing, an empty list, a one-post list
DictEntries == {Missing(<<>>), Present(<<>>), Present(<<FirstPost>>)}

PageData ==
    {ListData(ps) : ps \in SeqsUpTo(ScrapePosts, MaxPageLen)}
    \cup {DictData(ps, is, rs) : ps \in DictEntries, is \in DictEntries, rs \in DictEntries}

(* ---------------------------------------------------------------------- *)
(* State                                                                   *)
(* ---------------------------------------------------------------------- *)
VARIABLES
    pc,            \* where __main__ is: "loop", "fetched", "posts", "returned", "saved",
                   \* "raised"; "off" under SpecNormalize
    limit,         \* parameter of scrape_all_posts
    max_pages,     \* parameter of scrape_all_posts
    page_num,      \* the next value range(max_pages) yields
    offset,
    data,          \* the value fetch_page returned, until the posts are taken out of it
    posts,         \* the posts of the page being processed
    count,
    all_rows,
    csv_file,      \* the lines of the output file, <<>> while it is not written
    fetch_log,     \* the calls of fetch_page in order: the offset asked for, whether
                   \* the call returned, and how many posts it gave
    received,      \* every post received so far, in order of arrival
    normalize_calls, \* number of calls of normalize_post
    article_calls, \* number of article requests issued
    article,       \* the response to the last article request
    np_pc,         \* SpecNormalize: "call", "returned"; "off" under Spec
    np_post,       \* SpecNormalize: the argument of normalize_post
    np_resp,       \* SpecNormalize: what the article request gives
    np_candidates, \* SpecNormalize: candidates at line 124
    np_cleaned,    \* SpecNormalize: cleaned at line 132
    np_requests,   \* SpecNormalize: number of article requests issued
    np_row         \* SpecNormalize: the row returned

scrape_vars ==
    <<pc, limit, max_pages, page_num, offset, data, posts, count, all_rows, csv_file,
      fetch_log, received, normalize_calls, article_calls, article>>

np_vars == <<np_pc, np_post, np_resp, np_candidates, np_cleaned, np_requests, np_row>>

vars == <<scrape_vars, np_vars>>

NoArticle == [outcome |-> "none", links |-> <<>>, els |-> <<>>]

NoRow == [date |-> "", author_byline |-> "", headline |-> "", url |-> "", subheading |-> ""]

ScrapeIdle ==
    /\ pc = "off"
    /\ limit = 1
    /\ max_pages = 0
    /\ page_num = 0
    /\ offset = 0
    /\ data = NoData
    /\ posts = <<>>
    /\ count = 0
    /\ all_rows = <<>>
    /\ csv_file = <<>>
    /\ fetch_log = <<>>
    /\ received = <<>>
    /\ normalize_calls = 0
    /\ article_calls = 0
    /\ article = NoArticle

NormalizeIdle ==
    /\ np_pc = "off"
    /\ np_post = BarePost
    /\ np_resp = NoArticle
    /\ np_candidates = <<>>
    /\ np_cleaned = <<>>
    /\ np_requests = 0
    /\ np_row = NoRow

(* ---------------------------------------------------------------------- *)
(* scrape_all_posts and __main__                                           *)
(* ---------------------------------------------------------------------- *)
\* the state at line 221, before the first iteration
Init ==
    /\ pc = "loop"
    /\ limit \in 1..MaxLimit
    /\ max_pages \in 0..MaxPagesBound
    /\ page_num = 0
    /\ offset = 0
    /\ data = NoData
    /\ posts = <<>>
    /\ count = 0
    /\ all_rows = <<>>
    /\ csv_file = <<>>
    /\ fetch_log = <<>>
    /\ received = <<>>
    /\ normalize_calls = 0
    /\ article_calls = 0
    /\ article = NoArticle
    /\ NormalizeIdle

\* a or b or c over the dict entries: the first non-empty list, else nothing
FirstNonEmpty(a, b, c) ==
    IF a.has /\ a.v # <<>> THEN a.v
    ELSE IF b.has /\ b.v # <<>> THEN b.v
    ELSE IF c.has /\ c.v # <<>> THEN c.v
    ELSE <<>>

\* a plausible slip: only the "posts" key is read
ExtractPostsKeyOnly(d) ==
    IF d.kind = "dict" THEN (IF d.posts.has THEN d.posts.v ELSE <<>>) ELSE d.list

\* lines 231-234
ExtractPosts(d) ==
    IF d.kind = "dict" THEN FirstNonEmpty(d.posts, d.items, d.results) ELSE d.list

\* a plausible slip: the page is short only when it is empty
LastPageWhenEmpty(n, lim) == n = 0

\* line 258
LastPage(n, lim) == n < lim

\* a plausible slip: the offset advances by the page size
NextOffsetByLimit(off, n, lim) == off + lim

\* line 262
NextOffset(off, n, lim) == off + n

\* a plausible slip: the loop runs for one more page than max_pages
MorePagesInclusive == page_num <= max_pages

\* line 221: range(max_pages) has a next value
MorePages == page_num < max_pages

\* lines 221-227 when fetch_page returns the JSON value d
FetchPage ==
    /\ pc = "loop"
    /\ MorePages
    /\ \E d \in PageData :
         /\ Len(received) + Len(ExtractPosts(d)) <= MaxArchive
         /\ data' = d
         /\ fetch_log' = Append(fetch_log, [offset |-> offset, ok |-> TRUE, n |-> Len(ExtractPosts(d))])
         /\ received' = received \o ExtractPosts(d)
    /\ pc' = "fetched"
    /\ UNCHANGED <<limit, max_pages, page_num, offset, posts, count, all_rows, csv_file,
                   normalize_calls, article_calls, article>>
    /\ UNCHANGED np_vars

\* a plausible slip: an empty page skips to the next iteration (continue)
\* instead of leaving the loop
TakePostsContinues ==
    /\ pc = "fetched"
    /\ posts' = ExtractPosts(data)
    /\ data' = NoData
    /\ IF posts' = <<>>
       THEN pc' = "loop" /\ count' = count /\ page_num' = page_num + 1
       ELSE pc' = "posts" /\ count' = 0 /\ page_num' = page_num
    /\ UNCHANGED <<limit, max_pages, offset, all_rows, csv_file, fetch_log, received,
                   normalize_calls, article_calls, article>>
    /\ UNCHANGED np_vars

\* lines 231-242: the posts are taken out of data, and an empty page ends
\* the loop.  data is not read again before it is assigned anew, so the model
\* forgets it here.
TakePosts ==
    /\ pc = "fetched"
    /\ posts' = ExtractPosts(data)
    /\ data' = NoData
    /\ IF posts' = <<>>
       THEN pc' = "returned" /\ count' = count
       ELSE pc' = "posts" /\ count' = 0
    /\ UNCHANGED <<limit, max_pages, page_num, offset, all_rows, csv_file, fetch_log,
                   received, normalize_calls, article_calls, article>>
    /\ UNCHANGED np_vars

\* a plausible slip: the failure is caught and the loop left with the rows
\* collected so far
FetchPageCaught ==
    /\ pc = "loop"
    /\ MorePages
    /\ fetch_log' = Append(fetch_log, [offset |-> offset, ok |-> FALSE, n |-> 0])
    /\ pc' = "returned"
    /\ UNCHANGED <<limit, max_pages, page_num, offset, data, posts, count, all_rows,
                   csv_file, received, normalize_calls, article_calls, article>>
    /\ UNCHANGED np_vars

\* lines 221-227 when fetch_page raises: nothing in scrape_all_posts or
\* __main__ catches it
FetchPageRaises ==
    /\ pc = "loop"
    /\ MorePages
    /\ fetch_log' = Append(fetch_log, [offset |-> offset, ok |-> FALSE, n |-> 0])
    /\ pc' = "raised"
    /\ UNCHANGED <<limit, max_pages, page_num, offset, data, posts, count, all_rows,
                   csv_file, received, normalize_calls, article_calls, article>>
    /\ UNCHANGED np_vars

\* line 221 when range(max_pages) is exhausted, then line 268
LoopExhausted ==
    /\ pc = "loop"
    /\ ~MorePages
    /\ pc' = "returned"
    /\ UNCHANGED <<limit, max_pages, page_num, offset, data, posts, count, all_rows,
                   csv_file, fetch_log, received, normalize_calls,
                   article_calls, article>>
    /\ UNCHANGED np_vars

\* a plausible slip: a post without a url is counted but gets no row
ProcessWithSkip(post, resp, requested) ==
    /\ normalize_calls' = normalize_calls + 1
    /\ article_calls' = IF requested THEN article_calls + 1 ELSE article_calls
    /\ article' = IF requested THEN resp ELSE article
    /\ all_rows' = IF requested THEN Append(all_rows, normalize_post(post, resp)) ELSE all_rows
    /\ count' = count + 1
    /\ pc' = pc

\* lines 243-252 for one post: resp is what the article request gives
ProcessWith(post, resp, requested) ==
    /\ normalize_calls' = normalize_calls + 1
    /\ article_calls' = IF requested THEN article_calls + 1 ELSE article_calls
    /\ article' = IF requested THEN resp ELSE article
    /\ IF requested /\ ExtractPropagates(resp)
       THEN pc' = "raised" /\ UNCHANGED <<all_rows, count>>
       ELSE /\ all_rows' = Append(all_rows, normalize_post(post, resp))
            /\ count' = count + 1
            /\ pc' = pc

ProcessPost ==
    /\ pc = "posts"
    /\ count < Len(posts)
    /\ LET post == posts[count + 1]
       IN  IF NeedsArticle(post)
           THEN \E resp \in ScrapeArticles : ProcessWith(post, resp, TRUE)
           ELSE ProcessWith(post, NoArticle, FALSE)
    /\ UNCHANGED <<limit, max_pages, page_num, offset, data, posts, csv_file,
                   fetch_log, received>>
    /\ UNCHANGED np_vars

\* lines 255-265, after the last post of the page
EndOfPage ==
    /\ pc = "posts"
    /\ count = Len(posts)
    /\ IF LastPage(count, limit)
       THEN pc' = "returned" /\ UNCHANGED <<offset, page_num>>
       ELSE /\ offset' = NextOffset(offset, count, limit)
            /\ page_num' = page_num + 1
            /\ pc' = "loop"
    /\ UNCHANGED <<limit, max_pages, data, posts, count, all_rows, csv_file,
                   fetch_log, received, normalize_calls, article_calls, article>>
    /\ UNCHANGED np_vars

fieldnames == <<"date", "author_byline", "headline", "url", "subheading">>

\* writer.writerow(r): the values of r in the order of fieldnames
CsvLine(r) == <<r.date, r.author_byline, r.headline, r.url, r.subheading>>

RECURSIVE CsvLines(_)
CsvLines(rows) == IF rows = <<>> THEN <<>> ELSE <<CsvLine(Head(rows))>> \o CsvLines(Tail(rows))

\* lines 309-315: save_to_csv(rows)
SaveToCsv ==
    /\ pc = "returned"
    /\ csv_file' = <<fieldnames>> \o CsvLines(all_rows)
    /\ pc' = "saved"
    /\ UNCHANGED <<limit, max_pages, page_num, offset, data, posts, count, all_rows,
                   fetch_log, received, normalize_calls, article_calls, article>>
    /\ UNCHANGED np_vars

Next ==
    \/ FetchPage
    \/ TakePosts
    \/ FetchPageRaises
    \/ LoopExhausted
    \/ ProcessPost
    \/ EndOfPage
    \/ SaveToCsv

Spec == Init /\ [][Next]_vars

\* every network call returns or raises within its timeout, so a step that
\* can be taken is taken
FairSpec == Spec /\ WF_vars(Next)

(* ---------------------------------------------------------------------- *)
(* normalize_post on its own                                               *)
(* ---------------------------------------------------------------------- *)
\* the article responses tried with every raw post
SomeArticles ==
    FailedArticles \cup {ArticlePage(<<>>, <<>>), ArticlePage(<<JaneDoe>>, <<>>)}

\* every raw post with a few article responses, and every article page with
\* a post that has a url
InitNormalize ==
    /\ ScrapeIdle
    /\ np_pc = "call"
    /\ \/ np_post \in RawPosts /\ np_resp \in SomeArticles
       \/ np_post = SecondPost /\ np_resp \in ArticlePages(MaxLinks, MaxEls)
    /\ np_candidates = <<>>
    /\ np_cleaned = <<>>
    /\ np_requests = 0
    /\ np_row = NoRow

\* lines 157-196 when line 187 calls extract_author_from_html
NormalizeWithArticle ==
    /\ np_pc = "call"
    /\ NeedsArticle(np_post)
    /\ np_requests' = np_requests + 1
    /\ np_candidates' = IF np_resp.outcome = "ok" THEN Candidates(np_resp) ELSE <<>>
    /\ np_cleaned' = Clean(np_candidates')
    /\ IF ExtractPropagates(np_resp)
       THEN np_pc' = "raised" /\ np_row' = np_row
       ELSE np_pc' = "returned" /\ np_row' = normalize_post(np_post, np_resp)
    /\ UNCHANGED <<np_post, np_resp>>
    /\ UNCHANGED scrape_vars

\* lines 157-196 when line 187 does not
NormalizeWithoutArticle ==
    /\ np_pc = "call"
    /\ ~NeedsArticle(np_post)
    /\ np_row' = normalize_post(np_post, np_resp)
    /\ np_pc' = "returned"
    /\ UNCHANGED <<np_post, np_resp, np_candidates, np_cleaned, np_requests>>
    /\ UNCHANGED scrape_vars

NextNormalize ==
    \/ NormalizeWithArticle
    \/ NormalizeWithoutArticle

SpecNormalize == InitNormalize /\ [][NextNormalize]_vars

(* ---------------------------------------------------------------------- *)
(* Properties                                                              *)
(* ---------------------------------------------------------------------- *)
Last(seq) == seq[Len(seq)]

\* the row of a post, whatever its byline
RowOf(r, post) ==
    /\ r.date = PostDate(post)
    /\ r.headline = PostHeadline(post)
    /\ r.url = PostUrl(post)
    /\ r.subheading = PostSubheading(post)

Stopped == pc \in {"returned", "saved", "raised"}

FetchFailed == \E k \in 1..Len(fetch_log) : ~fetch_log[k].ok

\* the page being processed, or the last one processed, is a short page
ShortPage == 0 < Len(posts) /\ Len(posts) < limit

\* C1: a page of n posts with 0 < n < limit is processed whole (its n posts
\* are the last n rows, in order) and is the last request of the run: once it
\* has been fetched no call of fetch_page is made any more.
C1_ShortPageIsLast ==
    /\ [](ShortPage /\ pc \in {"returned", "saved"} =>
            /\ count = Len(posts)
            /\ Len(all_rows) >= Len(posts)
            /\ \A i \in 1..Len(posts) :
                 RowOf(all_rows[Len(all_rows) - Len(posts) + i], posts[i]))
    /\ [][ShortPage => fetch_log' = fetch_log /\ pc' # "raised"]_vars

C1_Witness ==
    /\ pc = "saved"
    /\ limit = 2
    /\ Len(fetch_log) = 2
    /\ fetch_log[1].n = 2
    /\ fetch_log[2].n = 1
    /\ Len(all_rows) = 3

\* the JSON value carries no post: an empty list, or a dict with nothing
\* under "posts", "items" and "results"
NoPostsIn(d) ==
    \/ d.kind = "list" /\ d.list = <<>>
    \/ /\ d.kind = "dict"
       /\ \A e \in {d.posts, d.items, d.results} : ~e.has \/ e.v = <<>>

\* C2: a fetched page that yields zero posts ends the loop in that iteration:
\* no row is appended, normalize_post is not called, and no page is fetched
\* afterwards.
EmptyPageStep ==
    pc = "fetched" /\ NoPostsIn(data) =>
        /\ pc' = "returned"
        /\ fetch_log' = fetch_log
        /\ all_rows' = all_rows
        /\ normalize_calls' = normalize_calls
        /\ article_calls' = article_calls

AfterLoopStep ==
    pc \in {"returned", "saved"} =>
        /\ fetch_log' = fetch_log
        /\ all_rows' = all_rows
        /\ normalize_calls' = normalize_calls

C2_EmptyPageStops == [][EmptyPageStep]_vars /\ [][AfterLoopStep]_vars

C2_Witness ==
    /\ pc = "saved"
    /\ Len(fetch_log) = 2
    /\ fetch_log[1].n = 2
    /\ fetch_log[2].ok
    /\ fetch_log[2].n = 0
    /\ Len(all_rows) = 2
    /\ Len(csv_file) = 3

\* C3: once a call of fetch_page has failed the run is over: the exception
\* leaves scrape_all_posts, no page and no article is requested any more, and
\* the output file is never written.
AfterFailureStep ==
    FetchFailed =>
        /\ fetch_log' = fetch_log
        /\ article_calls' = article_calls
        /\ csv_file' = csv_file

C3_FetchFailureAborts ==
    /\ [](FetchFailed => pc = "raised" /\ csv_file = <<>>)
    /\ [][AfterFailureStep]_vars

C3_Witness ==
    /\ pc = "raised"
    /\ Len(fetch_log) = 2
    /\ ~fetch_log[2].ok
    /\ Len(all_rows) = 2
    /\ csv_file = <<>>

\* C4: an article request that fails does not end the run: the post still
\* gets its row, with an empty author_byline and the date, headline, url and
\* subheading of the post, and the loop goes on with the rest of the page.
FailedArticleStep ==
    article_calls' = article_calls + 1 /\ article'.outcome \in ArticleFailures =>
        /\ pc' = "posts"
        /\ count' = count + 1
        /\ Len(all_rows') = Len(all_rows) + 1
        /\ SubSeq(all_rows', 1, Len(all_rows)) = all_rows
        /\ Last(all_rows').author_byline = ""
        /\ RowOf(Last(all_rows'), posts[count + 1])

C4_ArticleFailureTolerated ==
    /\ [][FailedArticleStep]_vars
    /\ [](pc = "raised" => FetchFailed)

C4_Witness ==
    /\ pc = "saved"
    /\ article.outcome = "http_error"
    /\ Len(fetch_log) = 2
    /\ Len(all_rows) = 3
    /\ all_rows[1].url # "" /\ all_rows[1].author_byline = ""
    /\ all_rows[2].author_byline = "Jane Doe"
    /\ all_rows[3].url # "" /\ all_rows[3].author_byline = ""

NoUrlSlugId(post) == ~post.url.has /\ ~post.slug.has /\ ~post.id.has

\* C5: a raw post with neither url nor slug nor id gets an empty url and an
\* empty author_byline and no article request; an article request is issued
\* only for a post whose normalized url is not empty.
C5_NoUrlNoArticle ==
    np_pc = "returned" =>
        /\ NoUrlSlugId(np_post) =>
             np_row.url = "" /\ np_row.author_byline = "" /\ np_requests = 0
        /\ np_requests > 0 => np_row.url # ""
        /\ np_requests \in {0, 1}

C5_Witness ==
    /\ np_pc = "returned"
    /\ NoUrlSlugId(np_post)
    /\ np_resp = ArticlePage(<<JaneDoe>>, <<>>)
    /\ np_post.title.has
    /\ np_row.headline = "Hello World"

\* the url the claim gives: url when present and non-empty, else slug when
\* present, else id when present
ClaimedUrl(post) ==
    IF post.url.has /\ post.url.v # EmptyRef THEN urljoin(BASE_PARTS, post.url.v)
    ELSE IF post.slug.has THEN BASE \o "/p/" \o post.slug.v
    ELSE IF post.id.has THEN BASE \o "/p/" \o IntToStr(post.id.v)
    ELSE ""

\* C6 as stated: the url is the first of url (non-empty), slug, id that is
\* present, and it is empty only when none of them is.
C6_Original ==
    np_pc = "returned" =>
        /\ np_row.url = ClaimedUrl(np_post)
        /\ np_row.url = "" =>
             ~((np_post.url.has /\ np_post.url.v # EmptyRef) \/ np_post.slug.has \/ np_post.id.has)

UrlUsable(post) == post.url.has /\ post.url.v # EmptyRef
SlugUsable(post) == post.slug.has /\ post.slug.v # ""
IdUsable(post) == post.id.has /\ post.id.v # 0

\* C6 amended: the url is the first of url, slug, id that is present with a
\* truthy value (a non-empty url, a non-empty slug, a non-zero id): the url
\* resolved against the base, else {base}/p/{slug}, else {base}/p/{id}; it is
\* empty exactly when none of the three has a truthy value.
C6_UrlPriority ==
    np_pc = "returned" =>
        /\ UrlUsable(np_post) => np_row.url = urljoin(BASE_PARTS, np_post.url.v)
        /\ ~UrlUsable(np_post) /\ SlugUsable(np_post) =>
             np_row.url = BASE \o "/p/" \o np_post.slug.v
        /\ ~UrlUsable(np_post) /\ ~SlugUsable(np_post) /\ IdUsable(np_post) =>
             np_row.url = BASE \o "/p/" \o IntToStr(np_post.id.v)
        /\ np_row.url = "" <=>
             ~(UrlUsable(np_post) \/ SlugUsable(np_post) \/ IdUsable(np_post))

C6_Witness ==
    /\ np_pc = "returned"
    /\ np_post.url = Present(Ref("", "", TRUE, "p/second"))
    /\ np_post.slug = Present("first-post")
    /\ np_post.id = Present(123)
    /\ np_row.url = "https://zeteo.com/p/second"

\* C7: a run without a page-fetch failure returns and writes one row per
\* post received, in the order the posts were received: page after page, and
\* within a page in the order of the page.
C7_RowsInDiscoveryOrder ==
    /\ pc \in {"returned", "saved"} =>
         /\ Len(all_rows) = Len(received)
         /\ \A i \in 1..Len(received) : RowOf(all_rows[i], received[i])
    /\ pc = "saved" =>
         /\ Len(csv_file) = Len(received) + 1
         /\ csv_file[1] = fieldnames
         /\ \A i \in 1..Len(received) : csv_file[i + 1] = CsvLine(all_rows[i])

C7_Witness ==
    /\ pc = "saved"
    /\ Len(fetch_log) = 2
    /\ fetch_log[1].n = 2
    /\ fetch_log[2].n = 0
    /\ received = <<FirstPost, BarePost>>
    /\ Len(csv_file) = 3
    /\ csv_file[2][4] = "https://zeteo.com/p/first-post"
    /\ csv_file[3][4] = ""

\* C8: the byline is made of each distinct non-empty candidate exactly once,
\* in the order of first occurrence, joined by ", "; without candidates it is
\* empty and nothing is raised.
FirstIndex(seq, x) == CHOOSE i \in 1..Len(seq) : seq[i] = x /\ \A j \in 1..(i - 1) : seq[j] # x

C8_DedupKeepsFirstSeenOrder ==
    np_pc # "raised" /\
    (np_pc = "returned" /\ np_requests = 1 /\ np_resp.outcome = "ok" =>
        /\ \A i, j \in 1..Len(np_cleaned) : i # j => np_cleaned[i] # np_cleaned[j]
        /\ \A i \in 1..Len(np_cleaned) : np_cleaned[i] # ""
        /\ {np_cleaned[i] : i \in 1..Len(np_cleaned)}
             = {np_candidates[i] : i \in 1..Len(np_candidates)} \ {""}
        /\ \A i, j \in 1..Len(np_cleaned) :
             i < j => FirstIndex(np_candidates, np_cleaned[i]) < FirstIndex(np_candidates, np_cleaned[j])
        /\ np_row.author_byline = Join(", ", np_cleaned)
        /\ np_candidates = <<>> => np_cleaned = <<>> /\ np_row.author_byline = "")

C8_Witness ==
    /\ np_pc = "returned"
    /\ np_candidates = <<"Jane Doe", "Jane Doe", "John Roe">>
    /\ np_cleaned = <<"Jane Doe", "John Roe">>
    /\ np_row.author_byline = "Jane Doe, John Roe"

\* every page fetched so far was full
AllPagesFull == \A k \in 1..Len(fetch_log) : fetch_log[k].ok /\ fetch_log[k].n >= limit

\* C9: scrape_all_posts calls fetch_page at most max_pages times and always
\* comes to an end; when every page is full the loop ends after max_pages
\* pages and the rows collected so far are returned, not an exception.
C9_BoundedPages ==
    /\ [](Len(fetch_log) <= max_pages)
    /\ <>Stopped
    /\ [][pc = "loop" /\ Len(fetch_log) = max_pages =>
            pc' = "returned" /\ all_rows' = all_rows]_vars
    /\ [](AllPagesFull /\ Len(fetch_log) = max_pages => <>(pc = "saved"))

C9_Witness ==
    /\ pc = "saved"
    /\ max_pages = 2
    /\ Len(fetch_log) = 2
    /\ AllPagesFull
    /\ Len(csv_file) = 1 + fetch_log[1].n + fetch_log[2].n

RECURSIVE PostsBefore(_, _)
PostsBefore(log, k) == IF k <= 1 THEN 0 ELSE log[k - 1].n + PostsBefore(log, k - 1)

\* C10: every call of fetch_page asks for the offset that is the number of
\* posts received in the earlier pages (0 for the first call), which is also
\* the number of rows collected when the call is made; the offset never
\* decreases and the processing of a post leaves it unchanged.
C10_OffsetIsPostsReceived ==
    /\ [](\A k \in 1..Len(fetch_log) : fetch_log[k].offset = PostsBefore(fetch_log, k))
    /\ [](pc = "loop" /\ page_num < max_pages => offset = Len(all_rows) /\ offset = Len(received))
    /\ [][offset' >= offset]_vars
    /\ [][normalize_calls' # normalize_calls => offset' = offset]_vars

C10_Witness ==
    /\ limit = 1
    /\ Len(fetch_log) = 2
    /\ fetch_log[1].n = 2
    /\ fetch_log[2].offset = 2
    /\ fetch_log[2].ok
    /\ Len(all_rows) = 3

====
